---- MODULE Spec2Model ----
(***************************************************************************)
(* Model of main.py: the /chat gateway.  A request loads the allow-list    *)
(* from allowed_commands.txt, runs the admission filter is_query_allowed,  *)
(* and, when admitted, dispatches to the GitHub rule-based backend.        *)
(*                                                                         *)
(* Strings are sequences of one-character strings, so that lower(),        *)
(* strip(), re.sub, split() and the substring test are computed.           *)
(***************************************************************************)
EXTENDS Naturals, Sequences, FiniteSets

VARIABLES
    query,          \* filter harness: the query given to is_query_allowed
    allow_list,     \* filter harness: the allow-list given to is_query_allowed
    verdict,        \* filter harness: [checked, allowed]
    file,           \* allowed_commands.txt: [exists, lines]
    GITHUB_TOKEN,   \* TRUE iff the environment variable was set at start-up
    req,            \* per request slot: position and locals of chat_endpoint
    errorBodies,    \* history: detail texts of the HTTP 500 responses sent so far
    hot             \* history: a rejection followed by an added allow-list line

fvars == <<query, allow_list, verdict>>
svars == <<file, GITHUB_TOKEN, req, errorBodies, hot>>
vars == <<query, allow_list, verdict, file, GITHUB_TOKEN, req, errorBodies, hot>>

(* ------------------------------ bounds --------------------------------- *)
MaxQueryLen == 3
MaxLineLen == 3
MaxEntries == 1
MaxFileLines == 1
MaxReplacementLen == 1

(* ------------------------- characters and strings ---------------------- *)
\* the characters of chr(0..255) that str.lower() changes, and their images
UpperLetters == <<"A","B","C","D","E","F","G","H","I","J","K","L","M",
                  "N","O","P","Q","R","S","T","U","V","W","X","Y","Z",
                  "À","Á","Â","Ã","Ä","Å","Æ","Ç","È","É","Ê","Ë","Ì",
                  "Í","Î","Ï","Ð","Ñ","Ò","Ó","Ô","Õ","Ö","Ø","Ù","Ú",
                  "Û","Ü","Ý","Þ">>
LowerLetters == <<"a","b","c","d","e","f","g","h","i","j","k","l","m",
                  "n","o","p","q","r","s","t","u","v","w","x","y","z",
                  "à","á","â","ã","ä","å","æ","ç","è","é","ê","ë","ì",
                  "í","î","ï","ð","ñ","ò","ó","ô","õ","ö","ø","ù","ú",
                  "û","ü","ý","þ">>
Digits == {"0","1","2","3","4","5","6","7","8","9"}
\* the characters of chr(0..255) for which str.isspace() holds: what
\* str.strip, str.split and \s of a str pattern treat as whitespace
\* (tab, LF, VT, FF, CR, FS, GS, RS, US, space, NEL, NBSP)
Whitespace == {"\t","\n","","\f","\r","","","",""," ",""," "}

UpperSet == {UpperLetters[i] : i \in 1..Len(UpperLetters)}
\* a-z, the letters the class [a-z] of the regex accepts
LowerSet == {"a","b","c","d","e","f","g","h","i","j","k","l","m","n","o","p","q","r","s","t","u","v","w","x","y","z"}

\* str.lower() on one character
LowerMap == [c \in UpperSet |->
                LowerLetters[CHOOSE i \in 1..Len(UpperLetters) : UpperLetters[i] = c]]
LowerChar(c) == IF c \in UpperSet THEN LowerMap[c] ELSE c

\* str.lower()
Lower(s) == [i \in 1..Len(s) |-> LowerChar(s[i])]

\* str.strip(): drop leading and trailing whitespace
RECURSIVE LStrip(_)
LStrip(s) == IF s = <<>> THEN s
             ELSE IF Head(s) \in Whitespace THEN LStrip(Tail(s)) ELSE s
RECURSIVE RStrip(_)
RStrip(s) == IF s = <<>> THEN s
             ELSE IF s[Len(s)] \in Whitespace THEN RStrip(SubSeq(s, 1, Len(s) - 1)) ELSE s
Strip(s) == RStrip(LStrip(s))

\* `sub in s` for Python strings: contiguous substring
Contains(sub, s) ==
    \E i \in 1..(Len(s) - Len(sub) + 1) : SubSeq(s, i, i + Len(sub) - 1) = sub

\* variant: the substitution is left out, punctuation stays in the query
Normalize_keep_all(s) == s

\* re.sub(r'[^a-z0-9\s]', '', s)
KeptByRegex(c) == c \in LowerSet \/ c \in Digits \/ c \in Whitespace
Normalize(s) == SelectSeq(s, KeptByRegex)

\* s.split(): the maximal runs of non-whitespace characters, in order
RECURSIVE SplitFrom(_, _, _)
SplitFrom(s, i, cur) ==
    IF i > Len(s) THEN (IF cur = <<>> THEN <<>> ELSE <<cur>>)
    ELSE IF s[i] \in Whitespace
         THEN (IF cur = <<>> THEN SplitFrom(s, i + 1, <<>>)
               ELSE <<cur>> \o SplitFrom(s, i + 1, <<>>))
         ELSE SplitFrom(s, i + 1, Append(cur, s[i]))
Split(s) == SplitFrom(s, 1, <<>>)

\* set(s.split())
SplitWords(s) == LET w == Split(s) IN { w[i] : i \in 1..Len(w) }

(* --------------------------- load_allowed_commands --------------------- *)
\* line.strip().lower()
CommandOf(line) == Lower(Strip(line))

\* the set built by the loop over the first k lines of the file
CommandsOfLines(lines, k) ==
    { CommandOf(lines[i]) : i \in 1..k } \ { <<>> }

\* variant: lines are stripped but not lowercased
load_allowed_commands_no_lower(f, failed, k) ==
    IF ~f.exists THEN {}
    ELSE { Strip(f.lines[i]) : i \in 1..(IF failed THEN k ELSE Len(f.lines)) } \ { <<>> }

\* load_allowed_commands: f is the file; failed says that open() or the
\* iteration raised, after k lines had been read and added
load_allowed_commands(f, failed, k) ==
    IF ~f.exists THEN {}
    ELSE IF failed THEN CommandsOfLines(f.lines, k)
    ELSE CommandsOfLines(f.lines, Len(f.lines))

(* ----------------------------- is_query_allowed ------------------------ *)
\* variant: the short-circuit on an empty allow-list admits instead of rejecting
is_query_allowed_failopen(q, cmds) ==
    IF cmds = {} THEN TRUE
    ELSE LET query_lower == Lower(q)
             normalized_query == Normalize(query_lower)
             normalized_query_words == SplitWords(normalized_query)
         IN  \/ \E command \in cmds :
                    /\ \E i \in 1..Len(command) : command[i] = " "
                    /\ Contains(command, query_lower)
             \/ \E word \in normalized_query_words : word \in cmds
             \/ normalized_query \in cmds

\* variant: the phrase loop searches the normalized query instead of query_lower
is_query_allowed_phrase_normalized(q, cmds) ==
    IF cmds = {} THEN FALSE
    ELSE LET query_lower == Lower(q)
             normalized_query == Normalize(query_lower)
             normalized_query_words == SplitWords(normalized_query)
         IN  \/ \E command \in cmds :
                    /\ \E i \in 1..Len(command) : command[i] = " "
                    /\ Contains(command, normalized_query)
             \/ \E word \in normalized_query_words : word \in cmds
             \/ normalized_query \in cmds

\* variant: the phrase loop lacks the test `' ' in command`
is_query_allowed_any_substring(q, cmds) ==
    IF cmds = {} THEN FALSE
    ELSE LET query_lower == Lower(q)
             normalized_query == Normalize(query_lower)
             normalized_query_words == SplitWords(normalized_query)
         IN  \/ \E command \in cmds : Contains(command, query_lower)
             \/ \E word \in normalized_query_words : word \in cmds
             \/ normalized_query \in cmds

is_query_allowed(q, cmds) ==
    IF cmds = {} THEN FALSE
    ELSE LET query_lower == Lower(q)
             normalized_query == Normalize(query_lower)
             normalized_query_words == SplitWords(normalized_query)
         IN  IF \E command \in cmds :
                    /\ \E i \in 1..Len(command) : command[i] = " "
                    /\ Contains(command, query_lower)
             THEN TRUE
             ELSE IF \E word \in normalized_query_words : word \in cmds
             THEN TRUE
             ELSE IF normalized_query \in cmds
             THEN TRUE
             ELSE FALSE

(* ------------------------- inputs of the filter ------------------------ *)
\* is_query_allowed and load_allowed_commands read their text only through
\* lower(), so the upper-case letter stands for both cases of a letter; the
\* tab stands for the whitespace other than the space, "+" for the
\* characters that are neither a-z, 0-9 nor whitespace
Alphabet == {"A", "+", " ", "\t"}

RECURSIVE StringsUpTo(_)
StringsUpTo(n) ==
    IF n = 0 THEN { <<>> }
    ELSE LET shorter == StringsUpTo(n - 1)
         IN  shorter \cup { Append(s, c) : s \in { t \in shorter : Len(t) = n - 1 }, c \in Alphabet }

Queries == StringsUpTo(MaxQueryLen)
RawLines == StringsUpTo(MaxLineLen)
\* what load_allowed_commands can put into the set
LoadedEntries == { CommandOf(l) : l \in RawLines } \ { <<>> }
RECURSIVE SetsUpTo(_, _)
SetsUpTo(E, n) ==
    IF n = 0 THEN { {} }
    ELSE LET smaller == SetsUpTo(E, n - 1)
         IN  smaller \cup { S \cup {e} : S \in smaller, e \in E }
AllowLists == SetsUpTo(LoadedEntries, MaxEntries)

InitFilter ==
    /\ query \in Queries
    /\ allow_list \in AllowLists
    /\ verdict = [checked |-> FALSE, allowed |-> FALSE]
    /\ file = [exists |-> FALSE, lines |-> <<>>]
    /\ GITHUB_TOKEN = FALSE
    /\ req = <<>>
    /\ errorBodies = {}
    /\ hot = [stage |-> "none"]

CheckQuery ==
    /\ ~verdict.checked
    /\ verdict' = [checked |-> TRUE, allowed |-> is_query_allowed(query, allow_list)]
    /\ UNCHANGED <<query, allow_list, svars>>

NextFilter == CheckQuery

SpecFilter == InitFilter /\ [][NextFilter]_vars

(* ======================= the /chat service ============================= *)

(* ----------------------- texts used by the handler --------------------- *)
S_repository == <<"r","e","p","o","s","i","t","o","r","y">>
S_repo == <<"r","e","p","o">>
S_project == <<"p","r","o","j","e","c","t">>
S_github == <<"g","i","t","h","u","b">>
S_search == <<"s","e","a","r","c","h">>
S_for == <<"f","o","r">>
S_get_content_of == <<"g","e","t"," ","c","o","n","t","e","n","t"," ","o","f"," ">>
S_from == <<" ","f","r","o","m"," ">>
S_list == <<"l","i","s","t"," ">>
S_files == <<"f","i","l","e","s">>
S_contents == <<"c","o","n","t","e","n","t","s">>
S_in == <<" ","i","n"," ">>

NotAllowedBody == "Command not allowed."
NotConfiguredDetail == "GitHub interaction not configured. Please set GITHUB_TOKEN."
ProcessingErrorDetail ==
    "An error occurred while processing your request. Please try again later or refine your query."

NoResponse == [status |-> 0, body |-> ""]

(* --------------------------- process_github_query ---------------------- *)
\* the literal lit occurs in s at position i
LitAt(s, i, lit) ==
    /\ i >= 1
    /\ i + Len(lit) - 1 <= Len(s)
    /\ SubSeq(s, i, i + Len(lit) - 1) = lit

\* s[a..b] is a non-empty run matched by \S+
NonSpaceRun(s, a, b) ==
    /\ 1 <= a /\ a <= b /\ b <= Len(s)
    /\ \A k \in a..b : s[k] \notin Whitespace

\* (\S+)/(\S+) matches s from position a on
OwnerSlashRepo(s, a) ==
    \E k \in a..Len(s) :
        /\ NonSpaceRun(s, a, k)
        /\ k + 1 <= Len(s) /\ s[k + 1] = "/"
        /\ k + 2 <= Len(s) /\ s[k + 2] \notin Whitespace

\* re.search(r"get content of (\S+) from (\S+)/(\S+)", s)
MatchFileContent(s) ==
    \E i \in 1..Len(s) :
        /\ LitAt(s, i, S_get_content_of)
        /\ \E j \in (i + Len(S_get_content_of))..Len(s) :
              /\ NonSpaceRun(s, i + Len(S_get_content_of), j)
              /\ LitAt(s, j + 1, S_from)
              /\ OwnerSlashRepo(s, j + 1 + Len(S_from))

\* re.search(r"list (files|contents) in (\S+)/(\S+)(?: at path (.*))?", s)
MatchListContents(s) ==
    \E i \in 1..Len(s) :
        /\ LitAt(s, i, S_list)
        /\ \E w \in {S_files, S_contents} :
              /\ LitAt(s, i + Len(S_list), w)
              /\ LitAt(s, i + Len(S_list) + Len(w), S_in)
              /\ OwnerSlashRepo(s, i + Len(S_list) + Len(w) + Len(S_in))

\* which rule of process_github_query the query takes
Intent(q) ==
    LET query_lower == Lower(q)
    IN  IF \/ Contains(S_repository, query_lower)
           \/ Contains(S_repo, query_lower)
           \/ Contains(S_project, query_lower)
        THEN "search"
        ELSE IF MatchFileContent(query_lower) THEN "fetch"
        ELSE IF MatchListContents(query_lower) THEN "list"
        ELSE "default"

\* next((word for word in query_lower.split() if word not in [...]), query_lower)
StopWords == {S_repository, S_repo, S_project, S_github, S_search, S_for}
SearchTerm(q) ==
    LET query_lower == Lower(q)
        words == Split(query_lower)
        idx == { i \in 1..Len(words) : words[i] \notin StopWords }
    IN  IF idx = {} THEN query_lower
        ELSE words[CHOOSE i \in idx : \A j \in idx : i <= j]

\* What one network call can come back with.
\*   request_exception: requests raised a RequestException (network error,
\*                      non-2xx status through raise_for_status)
\*   bad_payload:       a 2xx answer whose JSON lacks the fields the caller reads
SearchOutcomes == {"items", "no_items", "request_exception", "bad_payload"}
ContentsOutcomesFetch == {"file_with_url", "file_without_url", "not_a_file", "request_exception"}
ContentsOutcomesList == {"listing", "not_a_list", "request_exception", "bad_payload"}
FileOutcomes == {"text", "no_text", "request_exception"}

\* the response of chat_endpoint when process_github_query raised
BackendError == [status |-> 500, body |-> ProcessingErrorDetail]

\* variant: search_github_repositories lets the RequestException escape
SearchResponse_propagates(outcome) ==
    CASE outcome = "items" -> [status |-> 200, body |-> "Found these top repositories:"]
      [] outcome = "no_items" -> [status |-> 200, body |-> "No repositories found for your query."]
      [] outcome = "request_exception" -> BackendError
      [] outcome = "bad_payload" -> BackendError

\* Rule 1 after search_github_repositories has returned (or raised)
SearchResponse(outcome) ==
    CASE outcome = "items" -> [status |-> 200, body |-> "Found these top repositories:"]
      [] outcome = "no_items" -> [status |-> 200, body |-> "No repositories found for your query."]
      [] outcome = "request_exception" ->
            [status |-> 200, body |-> "No repositories found for your query."]
      [] outcome = "bad_payload" -> BackendError

\* Rule 2 after get_repo_contents, when no download is attempted
FetchContentsResponse(outcome) ==
    CASE outcome = "file_without_url" ->
            [status |-> 200, body |-> "No direct download URL found."]
      [] outcome = "not_a_file" ->
            [status |-> 200, body |-> "File not found or is not a file."]
      [] outcome = "request_exception" ->
            [status |-> 200, body |-> "File not found or is not a file."]

\* Rule 2 after fetch_file_content
FetchFileResponse(outcome) ==
    CASE outcome = "text" -> [status |-> 200, body |-> "Content of file"]
      [] outcome = "no_text" -> [status |-> 200, body |-> "Could not retrieve content."]
      [] outcome = "request_exception" ->
            [status |-> 200, body |-> "Could not retrieve content."]

\* Rule 3 after get_repo_contents
ListResponse(outcome) ==
    CASE outcome = "listing" -> [status |-> 200, body |-> "Listing contents"]
      [] outcome = "not_a_list" -> [status |-> 200, body |-> "Could not list contents."]
      [] outcome = "request_exception" ->
            [status |-> 200, body |-> "Could not list contents."]
      [] outcome = "bad_payload" -> BackendError

\* the fixed help text of the default rule
DefaultResponse == [status |-> 200, body |-> "Command allowed: help text"]

(* ------------------------------ inputs --------------------------------- *)
Q_for == <<"f","o","r">>
Q_search == <<"r","e","p","o"," ","o","r">>
Q_fetch == <<"g","e","t"," ","c","o","n","t","e","n","t"," ","o","f"," ","f"," ",
             "f","r","o","m"," ","o","/","r">>
Q_list == <<"l","i","s","t"," ","f","i","l","e","s"," ","i","n"," ","o","/","r">>
Q_default == <<"O","R","!">>
Q_empty == <<>>
Messages == {Q_empty, Q_for, Q_search, Q_fetch, Q_list, Q_default}

L_or == <<" ","O","r">>
FileLines == {L_or}

Slots == {1, 2}

IdleReq == [pc |-> "idle", user_message |-> <<>>, allowed_commands |-> {},
            load_failed |-> FALSE, admitted |-> FALSE, calls |-> <<>>,
            response |-> NoResponse, hot |-> <<>>]

Init ==
    /\ query = <<>>
    /\ allow_list = {}
    /\ verdict = [checked |-> FALSE, allowed |-> FALSE]
    /\ file \in {[exists |-> FALSE, lines |-> <<>>], [exists |-> TRUE, lines |-> <<>>]}
    /\ GITHUB_TOKEN \in BOOLEAN
    /\ req = [r \in Slots |-> IdleReq]
    /\ errorBodies = {}
    /\ hot = [stage |-> "none"]

(* ------------------- the resource and the process ---------------------- *)
\* an editor appends a line to allowed_commands.txt (creating it if absent)
AppendLine(line) ==
    /\ Len(file.lines) < MaxFileLines
    /\ file' = [exists |-> TRUE, lines |-> Append(file.lines, line)]
    /\ hot' = IF hot.stage = "rejected"
              THEN [stage |-> "added", q |-> hot.q, line |-> line]
              ELSE [stage |-> "none"]
    /\ req' = [r \in Slots |-> [req[r] EXCEPT !.hot = <<>>]]
    /\ UNCHANGED <<GITHUB_TOKEN, errorBodies, fvars>>

\* allowed_commands.txt is removed
DeleteFile ==
    /\ file.exists
    /\ file' = [exists |-> FALSE, lines |-> <<>>]
    /\ hot' = [stage |-> "none"]
    /\ req' = [r \in Slots |-> [req[r] EXCEPT !.hot = <<>>]]
    /\ UNCHANGED <<GITHUB_TOKEN, errorBodies, fvars>>

\* the process is started again: module level code reads os.getenv anew
Restart ==
    /\ \A r \in Slots : req[r].pc \in {"idle", "done"}
    /\ GITHUB_TOKEN' \in BOOLEAN
    /\ req' = [r \in Slots |-> IdleReq]
    /\ hot' = [stage |-> "none"]
    /\ UNCHANGED <<file, errorBodies, fvars>>

(* ----------------------------- chat_endpoint --------------------------- *)
\* user_message = request.message
Receive(r, q) ==
    /\ req[r].pc \in {"idle", "done"}
    /\ req' = [req EXCEPT ![r] =
                 [IdleReq EXCEPT !.pc = "received", !.user_message = q,
                                 !.hot = IF hot.stage = "added" /\ hot.q = q
                                         THEN <<hot.line>> ELSE <<>>]]
    /\ hot' = IF hot.stage = "added" THEN [stage |-> "none"] ELSE hot
    /\ UNCHANGED <<file, GITHUB_TOKEN, errorBodies, fvars>>

\* allowed_commands = load_allowed_commands(ALLOWED_COMMANDS_FILE)
Load(r, failed, k) ==
    /\ req[r].pc = "received"
    /\ k \in 0..Len(file.lines)
    /\ failed => file.exists
    /\ ~failed => k = Len(file.lines)
    /\ req' = [req EXCEPT ![r].pc = "loaded",
                          ![r].allowed_commands = load_allowed_commands(file, failed, k),
                          ![r].load_failed = failed \/ ~file.exists,
                          ![r].hot = IF failed \/ ~file.exists THEN <<>> ELSE @]
    /\ UNCHANGED <<file, GITHUB_TOKEN, errorBodies, hot, fvars>>

\* variant: the rejection branch logs but does not return
Filter_no_return(r) ==
    /\ req[r].pc = "loaded"
    /\ IF is_query_allowed(req[r].user_message, req[r].allowed_commands)
       THEN /\ req' = [req EXCEPT ![r].pc = "admitted", ![r].admitted = TRUE,
                                  ![r].load_failed = FALSE]
            /\ hot' = hot
       ELSE /\ req' = [req EXCEPT ![r].pc = "admitted", ![r].load_failed = FALSE]
            /\ hot' = [stage |-> "rejected", q |-> req[r].user_message]
    /\ UNCHANGED <<file, GITHUB_TOKEN, errorBodies, fvars>>

\* if not is_query_allowed(...): return {"response": "Command not allowed."}
Filter(r) ==
    /\ req[r].pc = "loaded"
    /\ IF is_query_allowed(req[r].user_message, req[r].allowed_commands)
       THEN /\ req' = [req EXCEPT ![r].pc = "admitted", ![r].admitted = TRUE,
                                  ![r].load_failed = FALSE]
            /\ hot' = hot
       ELSE /\ req' = [req EXCEPT ![r].pc = "done", ![r].load_failed = FALSE,
                                  ![r].response = [status |-> 200, body |-> NotAllowedBody]]
            /\ hot' = [stage |-> "rejected", q |-> req[r].user_message]
    /\ UNCHANGED <<file, GITHUB_TOKEN, errorBodies, fvars>>

\* variant: the test of GITHUB_TOKEN is left out
CheckToken_skipped(r) ==
    /\ req[r].pc = "admitted"
    /\ req' = [req EXCEPT ![r].pc = "process"]
    /\ errorBodies' = errorBodies
    /\ UNCHANGED <<file, GITHUB_TOKEN, hot, fvars>>

\* if not GITHUB_TOKEN: raise HTTPException(status_code=500, ...)
CheckToken(r) ==
    /\ req[r].pc = "admitted"
    /\ IF ~GITHUB_TOKEN
       THEN /\ req' = [req EXCEPT ![r].pc = "done",
                                  ![r].response = [status |-> 500, body |-> NotConfiguredDetail]]
            /\ errorBodies' = errorBodies \cup {NotConfiguredDetail}
       ELSE /\ req' = [req EXCEPT ![r].pc = "process"]
            /\ errorBodies' = errorBodies
    /\ UNCHANGED <<file, GITHUB_TOKEN, hot, fvars>>

\* process_github_query, default rule: no backend call
ProcessDefault(r) ==
    /\ req[r].pc = "process"
    /\ Intent(req[r].user_message) = "default"
    /\ req' = [req EXCEPT ![r].pc = "done", ![r].response = DefaultResponse]
    /\ errorBodies' = errorBodies
    /\ UNCHANGED <<file, GITHUB_TOKEN, hot, fvars>>

\* rule 1: search_github_repositories(search_term)
ProcessSearch(r, outcome) ==
    /\ req[r].pc = "process"
    /\ Intent(req[r].user_message) = "search"
    /\ outcome \in SearchOutcomes
    /\ LET call == [kind |-> "search", arg |-> SearchTerm(req[r].user_message),
                    outcome |-> outcome]
           resp == SearchResponse(outcome)
       IN  /\ req' = [req EXCEPT ![r].pc = "done", ![r].response = resp,
                                 ![r].calls = Append(@, call)]
           /\ errorBodies' = IF resp.status = 500 THEN errorBodies \cup {resp.body}
                             ELSE errorBodies
    /\ UNCHANGED <<file, GITHUB_TOKEN, hot, fvars>>

\* rule 2: get_repo_contents(owner, repo_name, file_name)
ProcessFetchContents(r, outcome) ==
    /\ req[r].pc = "process"
    /\ Intent(req[r].user_message) = "fetch"
    /\ outcome \in ContentsOutcomesFetch
    /\ LET call == [kind |-> "contents", arg |-> <<>>, outcome |-> outcome]
       IN  IF outcome = "file_with_url"
           THEN /\ req' = [req EXCEPT ![r].pc = "download", ![r].calls = Append(@, call)]
                /\ errorBodies' = errorBodies
           ELSE /\ req' = [req EXCEPT ![r].pc = "done",
                                      ![r].response = FetchContentsResponse(outcome),
                                      ![r].calls = Append(@, call)]
                /\ errorBodies' = errorBodies
    /\ UNCHANGED <<file, GITHUB_TOKEN, hot, fvars>>

\* rule 2: fetch_file_content(download_url)
ProcessFetchFile(r, outcome) ==
    /\ req[r].pc = "download"
    /\ outcome \in FileOutcomes
    /\ LET call == [kind |-> "download", arg |-> <<>>, outcome |-> outcome]
       IN  /\ req' = [req EXCEPT ![r].pc = "done",
                                 ![r].response = FetchFileResponse(outcome),
                                 ![r].calls = Append(@, call)]
           /\ errorBodies' = errorBodies
    /\ UNCHANGED <<file, GITHUB_TOKEN, hot, fvars>>

\* rule 3: get_repo_contents(owner, repo_name, path)
ProcessList(r, outcome) ==
    /\ req[r].pc = "process"
    /\ Intent(req[r].user_message) = "list"
    /\ outcome \in ContentsOutcomesList
    /\ LET call == [kind |-> "contents", arg |-> <<>>, outcome |-> outcome]
           resp == ListResponse(outcome)
       IN  /\ req' = [req EXCEPT ![r].pc = "done", ![r].response = resp,
                                 ![r].calls = Append(@, call)]
           /\ errorBodies' = IF resp.status = 500 THEN errorBodies \cup {resp.body}
                             ELSE errorBodies
    /\ UNCHANGED <<file, GITHUB_TOKEN, hot, fvars>>

Next ==
    \/ \E line \in FileLines : AppendLine(line)
    \/ DeleteFile
    \/ Restart
    \/ \E r \in Slots, q \in Messages : Receive(r, q)
    \/ \E r \in Slots, failed \in BOOLEAN, k \in 0..MaxFileLines : Load(r, failed, k)
    \/ \E r \in Slots : Filter(r)
    \/ \E r \in Slots : CheckToken(r)
    \/ \E r \in Slots : ProcessDefault(r)
    \/ \E r \in Slots, o \in SearchOutcomes : ProcessSearch(r, o)
    \/ \E r \in Slots, o \in ContentsOutcomesFetch : ProcessFetchContents(r, o)
    \/ \E r \in Slots, o \in FileOutcomes : ProcessFetchFile(r, o)
    \/ \E r \in Slots, o \in ContentsOutcomesList : ProcessList(r, o)

Spec == Init /\ [][Next]_vars

(* ========================= stated properties =========================== *)

(* ---- the vocabulary of the statements, defined apart from the code ---- *)
\* a-z, 0-9 or whitespace
PlainChar(c) == c \in LowerSet \cup Digits \cup Whitespace

\* lowercase(q) with every character other than a-z, 0-9 and whitespace removed
RECURSIVE Normalized(_)
Normalized(s) ==
    IF s = <<>> THEN <<>>
    ELSE IF PlainChar(LowerChar(Head(s)))
         THEN <<LowerChar(Head(s))>> \o Normalized(Tail(s))
         ELSE Normalized(Tail(s))

\* the whitespace-separated tokens of s
Tokens(s) ==
    { SubSeq(s, p[1], p[2]) : p \in
        { p \in (1..Len(s)) \X (1..Len(s)) :
            /\ p[1] <= p[2]
            /\ \A k \in p[1]..p[2] : s[k] \notin Whitespace
            /\ (p[1] = 1 \/ s[p[1] - 1] \in Whitespace)
            /\ (p[2] = Len(s) \/ s[p[2] + 1] \in Whitespace) } }

\* e is a contiguous substring of s
Substring(e, s) == \E a, b \in 0..Len(s) : SubSeq(s, a + 1, b) = e

HasSpace(e) == " " \in { e[i] : i \in 1..Len(e) }

\* the three ways an entry e admits the query q
PhraseRule(q, e) == HasSpace(e) /\ Substring(e, Lower(q))
TokenRule(q, e) == e \in Tokens(Normalized(q))
WholeRule(q, e) == e = Normalized(q)
EntryAdmits(q, e) == PhraseRule(q, e) \/ TokenRule(q, e) \/ WholeRule(q, e)

\* the entry a line of the resource stands for: trimmed and lowercased
EntryOfLine(line) == Lower(Strip(line))

\* positions of chat_endpoint after the admission filter has returned
PastFilter == {"admitted", "process", "download", "done"}
Rejection == [status |-> 200, body |-> NotAllowedBody]

(* ------------------------------- C1 ------------------------------------ *)
\* C1: for a non-empty allow-list, is_query_allowed returns true exactly when
\* some entry with a space is a substring of lowercase(q), or some token of
\* normalized(q) is an entry, or normalized(q) as a whole is an entry.
C1_ThreeTier ==
    (verdict.checked /\ allow_list # {}) =>
        (verdict.allowed <=> \E e \in allow_list : EntryAdmits(query, e))

\* an admission that only the whole-query rule explains
C1_Witness ==
    /\ verdict.checked /\ verdict.allowed
    /\ \E e \in allow_list :
          WholeRule(query, e) /\ ~PhraseRule(query, e) /\ ~TokenRule(query, e)

(* ------------------------------- C9 ------------------------------------ *)
\* C9 as stated: a query whose normalized form has no tokens is rejected for
\* every allow-list that load_allowed_commands can produce.
C9_AlwaysRejected ==
    (verdict.checked /\ Tokens(Normalized(query)) = {}) => ~verdict.allowed

\* C9 amended: a query whose normalized form has no tokens is never admitted
\* by the token rule or the whole-query rule; it is admitted exactly when an
\* entry containing a space is a contiguous substring of lowercase(q).
C9_OnlyPhraseAdmits ==
    (verdict.checked /\ Tokens(Normalized(query)) = {}) =>
        (verdict.allowed <=> \E e \in allow_list : PhraseRule(query, e))

\* a punctuation-only query, checked against a non-empty allow-list, rejected
C9_Witness ==
    /\ verdict.checked /\ ~verdict.allowed
    /\ allow_list # {}
    /\ query # <<>>
    /\ \A i \in 1..Len(query) : ~PlainChar(LowerChar(query[i]))

(* ------------------------------- C10 ----------------------------------- *)
\* the entries tried as a replacement
Replacements == { e \in LoadedEntries : Len(e) <= MaxReplacementLen }

\* an entry without a space and with a character outside a-z and 0-9
NoSpaceNonAlnum(e) ==
    ~HasSpace(e) /\ \E i \in 1..Len(e) : e[i] \notin LowerSet \cup Digits

\* an entry without a space and with a character that is neither a-z, 0-9
\* nor whitespace
NoSpacePunctuated(e) ==
    ~HasSpace(e) /\ \E i \in 1..Len(e) : ~PlainChar(e[i])

\* C10 as stated: an entry with no space and a character outside a-z, 0-9
\* never causes admission: the result is the same without it, and the same
\* with it replaced by another such entry.
C10_InertEntry ==
    verdict.checked =>
        \A e \in allow_list : NoSpaceNonAlnum(e) =>
            /\ verdict.allowed = is_query_allowed(query, allow_list \ {e})
            /\ \A e2 \in Replacements : NoSpaceNonAlnum(e2) =>
                  verdict.allowed = is_query_allowed(query, (allow_list \ {e}) \cup {e2})

\* C10 amended: an entry with no space and at least one character that is
\* neither a-z, 0-9 nor whitespace never causes admission: the result is the
\* same without it, and the same with it replaced by another such entry.
C10_InertPunctuatedEntry ==
    verdict.checked =>
        \A e \in allow_list : NoSpacePunctuated(e) =>
            /\ verdict.allowed = is_query_allowed(query, allow_list \ {e})
            /\ \A e2 \in Replacements : NoSpacePunctuated(e2) =>
                  verdict.allowed = is_query_allowed(query, (allow_list \ {e}) \cup {e2})

\* such an entry is in the allow-list and the query contains it literally
C10_Witness ==
    /\ verdict.checked /\ ~verdict.allowed
    /\ \E e \in allow_list : NoSpacePunctuated(e) /\ Substring(e, Lower(query))

(* ------------------------------- C2 ------------------------------------ *)
\* C2: with an empty allow-list is_query_allowed returns false for every
\* message, the empty string included, and a request that loaded an empty
\* allow-list ends in the fixed rejection without any backend call.
C2_EmptyListRejects ==
    /\ \A q \in Messages : ~is_query_allowed(q, {})
    /\ \A r \in Slots :
          (req[r].pc \in PastFilter /\ req[r].allowed_commands = {}) =>
              /\ ~req[r].admitted
              /\ req[r].pc = "done"
              /\ req[r].response = Rejection
              /\ req[r].calls = <<>>

\* a request whose load found the resource present but without entries, rejected
C2_Witness ==
    \E r \in Slots :
        /\ req[r].pc = "done"
        /\ req[r].allowed_commands = {}
        /\ req[r].user_message = Q_default
        /\ req[r].response = Rejection
        /\ file.exists

(* ------------------------------- C3 ------------------------------------ *)
\* C3: a backend call is recorded only in a request that has loaded the
\* allow-list and whose message the filter admitted against that list; a
\* rejected request has no backend call; whatever the other request does.
C3_FilterBeforeBackend ==
    \A r \in Slots :
        /\ req[r].calls # <<>> =>
              /\ req[r].pc \in {"download", "done"}
              /\ req[r].admitted
              /\ \E e \in req[r].allowed_commands : EntryAdmits(req[r].user_message, e)
        /\ req[r].pc \in {"process", "download"} => req[r].admitted
        /\ (req[r].pc = "done" /\ ~req[r].admitted) =>
              (req[r].calls = <<>> /\ req[r].response = Rejection)

\* one request has called the backend while the other is still before its filter
C3_Witness ==
    \E r1, r2 \in Slots :
        /\ r1 # r2
        /\ req[r1].calls # <<>>
        /\ req[r2].pc = "loaded"
        /\ ~is_query_allowed(req[r2].user_message, req[r2].allowed_commands)

(* ------------------------------- C4 ------------------------------------ *)
\* C4 as stated: a request rejected the query, then a line whose entry the
\* query contains was appended to the resource; the very next request with
\* that query is admitted.
C4_HotReloadContains ==
    \A r \in Slots :
        (/\ req[r].pc \in PastFilter
         /\ req[r].hot # <<>>
         /\ Substring(EntryOfLine(req[r].hot[1]), Lower(req[r].user_message)))
        => req[r].admitted

\* C4 amended: a request rejected the query, then a line was appended whose
\* entry matches the query by the filter's rules (an entry with a space that
\* is a substring of the lowercased query, or an entry equal to a token of the
\* normalized query or to the whole normalized query); the very next request
\* with that query, when its read of the resource succeeds, is admitted, with
\* no restart in between.
C4_HotReloadMatches ==
    \A r \in Slots :
        (/\ req[r].pc \in PastFilter
         /\ req[r].hot # <<>>
         /\ EntryAdmits(req[r].user_message, EntryOfLine(req[r].hot[1])))
        => req[r].admitted

\* the next request after the appended line was admitted and answered
C4_Witness ==
    \E r \in Slots :
        /\ req[r].pc = "done"
        /\ req[r].hot # <<>>
        /\ req[r].admitted
        /\ req[r].response.status = 200

(* ------------------------------- C5 ------------------------------------ *)
\* C5: load_allowed_commands returns the empty allow-list whenever reading the
\* resource failed, also after some lines had been read and added.
C5_FailedLoadIsEmpty ==
    \A r \in Slots :
        (req[r].pc = "loaded" /\ req[r].load_failed) => req[r].allowed_commands = {}

(* ------------------------------- C6 ------------------------------------ *)
RequestFailed(r) ==
    \E i \in 1..Len(req[r].calls) : req[r].calls[i].outcome = "request_exception"

\* C6 as stated: an admitted request in which a backend call failed ends in
\* Backend-Error, HTTP 500 with the generic message, and the call is not retried.
C6_FailedCallIs500 ==
    \A r \in Slots :
        (req[r].pc = "done" /\ RequestFailed(r)) =>
            /\ req[r].response = [status |-> 500, body |-> ProcessingErrorDetail]
            /\ \A i \in 1..Len(req[r].calls) :
                  req[r].calls[i].outcome = "request_exception" => i = Len(req[r].calls)

\* C6 amended: a backend call that fails with a RequestException (network
\* error or non-2xx response) is not retried and no further call follows it;
\* the helper absorbs the failure and the request ends with HTTP 200 and an
\* inline explanatory line.  A request ends in Backend-Error, HTTP 500 with
\* the generic message, only when a 2xx payload lacks the fields the code reads.
C6_FailedCallAbsorbed ==
    \A r \in Slots :
        /\ \A i \in 1..Len(req[r].calls) :
              req[r].calls[i].outcome = "request_exception" =>
                  /\ i = Len(req[r].calls)
                  /\ req[r].pc = "done"
                  /\ req[r].response.status = 200
                  /\ req[r].response.body \in
                        {"No repositories found for your query.",
                         "File not found or is not a file.",
                         "Could not retrieve content.",
                         "Could not list contents."}
        /\ \A i, j \in 1..Len(req[r].calls) :
              req[r].calls[i].kind = req[r].calls[j].kind => i = j
        /\ (req[r].pc = "done" /\ req[r].calls # <<>> /\ req[r].response.status = 500) =>
              /\ req[r].calls[Len(req[r].calls)].outcome = "bad_payload"
              /\ req[r].response.body = ProcessingErrorDetail

\* a repository search that failed with a RequestException, answered
C6_Witness ==
    \E r \in Slots :
        /\ req[r].pc = "done"
        /\ Len(req[r].calls) = 1
        /\ req[r].calls[1].kind = "search"
        /\ req[r].calls[1].outcome = "request_exception"
        /\ req[r].response.status = 200

(* ------------------------------- C7 ------------------------------------ *)
\* C7: every Backend-Error response carries the same generic body, whatever
\* the cause of the failure.
C7_OneErrorBody == Cardinality(errorBodies) <= 1

(* ------------------------------- C8 ------------------------------------ *)
\* a step of some request's handler
HandlerStep == \E r \in Slots : req'[r].pc # req[r].pc /\ req'[r].pc # "idle"

C8_State ==
    ~GITHUB_TOKEN =>
        \A r \in Slots :
            /\ req[r].calls = <<>>
            /\ req[r].pc \notin {"process", "download"}
            /\ (req[r].pc = "done" /\ req[r].admitted) => req[r].response.status = 500
            /\ (req[r].pc = "done" /\ ~req[r].admitted) => req[r].response = Rejection
            /\ req[r].pc = "done" => \A q \in Messages : ENABLED Receive(r, q)

\* C8: without GITHUB_TOKEN every admitted request ends in HTTP 500 with no
\* backend call, every rejected request ends in HTTP 200 "Command not
\* allowed.", a finished slot takes the next request, and no handler step
\* changes the resource or the configuration.
C8_DegradesGracefully ==
    /\ []C8_State
    /\ [][HandlerStep => (file' = file /\ GITHUB_TOKEN' = GITHUB_TOKEN)]_vars

\* without the token: an admitted request got its 500, a rejected one its 200
C8_Witness ==
    /\ ~GITHUB_TOKEN
    /\ NotConfiguredDetail \in errorBodies
    /\ \E r1, r2 \in Slots :
          /\ r1 # r2
          /\ req[r1].pc = "done" /\ req[r1].admitted /\ req[r1].response.status = 500
          /\ req[r2].pc = "done" /\ req[r2].response = Rejection

====
